---- MODULE Spec2Model ----
(***************************************************************************)
(* The line-delimited JSON-RPC 2.0 server of mcp-server-aws.js: the        *)
(* startup notification, the 'line' listener (envelope validation, method  *)
(* classification, tool lookup, handler invocation, catch-all), the tool   *)
(* catalog, the handler table and the process-wide AWS region.             *)
(*                                                                         *)
(* The diagnostic log (fs.appendFileSync) works throughout Spec; in        *)
(* SpecLog it can stop working at any moment, and log() throws from then.  *)
(*                                                                         *)
(* The minimal server mcp-server-jsonrpc.js (part_001) runs beside it as a *)
(* second process that is given the same input lines; it has one           *)
(* synchronous listener, the one tool ping and the same log file.          *)
(***************************************************************************)
EXTENDS Integers, Sequences, FiniteSets, TLC

VARIABLES
  pc,          \* "start": the startup script runs; "listening": it has ended
  lines,       \* the input lines read so far, in arrival order
  out,         \* the lines written to stdout, in order
  calls,       \* the handler calls made so far, in call order
  microtasks,  \* the settled calls whose awaiting listener has yet to resume
  region,      \* AWS.config.region
  logWorks,    \* fs.appendFileSync on the log file succeeds
  minimalOut   \* the lines the minimal server has written to its stdout

vars == <<pc, lines, out, calls, microtasks, region, logWorks, minimalOut>>

\* Number of input lines a run reads.
MaxLines == 2

\* JavaScript undefined: a key that is not there (JSON.stringify leaves it out).
Absent == "<absent>"
\* JSON null.
Null == "<null>"

-----------------------------------------------------------------------------
(* The catalog `tools` and the handler table `toolHandlers`.               *)

Tool(n, props, req) == [name |-> n, properties |-> props, required |-> req]

tools ==
  << Tool("aws.ec2.describeInstances", {"region", "filters"}, <<>>),
     Tool("aws.ec2.describeVpcs", {"region", "vpcIds"}, <<>>),
     Tool("aws.ec2.describeSecurityGroups", {"region", "groupIds"}, <<>>),
     Tool("aws.s3.listBuckets", {"region"}, <<>>),
     Tool("aws.s3.listObjects", {"region", "bucket", "prefix"}, <<"bucket">>),
     Tool("aws.lambda.listFunctions", {"region"}, <<>>),
     Tool("aws.lambda.getFunctionConfiguration", {"region", "functionName"},
          <<"functionName">>),
     Tool("aws.dynamodb.listTables", {"region"}, <<>>),
     Tool("aws.dynamodb.describeTable", {"region", "tableName"}, <<"tableName">>),
     Tool("aws.cloudwatch.getMetricStatistics",
          {"region", "namespace", "metricName", "dimensions", "startTime",
           "endTime", "period", "statistics"},
          <<"namespace", "metricName">>),
     Tool("aws.cloudwatch.describeAlarms",
          {"region", "alarmNames", "stateValue", "alarmTypes"}, <<>>),
     Tool("aws.iam.listUsers", {"pathPrefix", "maxItems"}, <<>>),
     Tool("aws.iam.listRoles", {"pathPrefix", "maxItems"}, <<>>),
     Tool("aws.rds.describeDBInstances", {"region", "dbInstanceIdentifier"}, <<>>),
     Tool("aws.sns.listTopics", {"region"}, <<>>),
     Tool("aws.sqs.listQueues", {"region", "queueNamePrefix"}, <<>>),
     Tool("aws.cloudformation.listStacks", {"region", "stackStatusFilter"}, <<>>),
     Tool("aws.route53.listHostedZones", {"maxItems"}, <<>>),
     Tool("aws.cloudfront.listDistributions", {"maxItems"}, <<>>),
     Tool("aws.ecs.listClusters", {"region"}, <<>>),
     Tool("aws.eks.listClusters", {"region"}, <<>>),
     Tool("ping", {}, <<>>) >>

\* The own keys of the object literal toolHandlers.
toolHandlers ==
  { "ping", "aws.ec2.describeInstances", "aws.s3.listBuckets",
    "aws.s3.listObjects", "aws.lambda.listFunctions", "aws.dynamodb.listTables",
    "aws.cloudwatch.getMetricStatistics" }

\* toolHandlers is a plain object literal, so toolHandlers[name] also finds
\* what Object.prototype holds; these are the inherited keys the model probes.
ObjectPrototype == {"constructor", "toString", "__proto__", "__lookupGetter__"}

\* The truthiness of toolHandlers[toolName].
HasHandlerProperty(toolName) == toolName \in toolHandlers \cup ObjectPrototype

\* The guard of line 736: !toolName || !toolHandlers[toolName].
ToolMissing(toolName) ==
  \/ toolName = Absent
  \/ toolName = ""
  \/ ~HasHandlerProperty(toolName)

\* `${toolName}` in a template literal.
TemplateString(v) == IF v = Absent THEN "undefined" ELSE v

-----------------------------------------------------------------------------
(* Output lines.  A key whose value is Absent is not in the written JSON.  *)

Result(tag, rg, pv, tl) ==
  [tag |-> tag, region |-> rg, protocolVersion |-> pv, tools |-> tl]

\* No `result` key (an undefined result is dropped by JSON.stringify).
NoResult == Result(Absent, Absent, Absent, <<>>)

\* `src` is the number of the input line whose processing wrote the line
\* (0: the startup script); it is not part of the written text.
OutLine(src, id, method, result, code, message) ==
  [src |-> src, id |-> id, method |-> method, result |-> result,
   code |-> code, message |-> message]

sendResponse(src, id, result) == OutLine(src, id, Absent, result, 0, Absent)

sendErrorResponse(src, id, code, message) ==
  OutLine(src, id, Absent, NoResult, code, message)

ReadyNotification == OutLine(0, Absent, "notifications/ready", NoResult, 0, Absent)

IsNotification(o) == o.method # Absent
IsError(o) == o.code # 0
IsSuccess(o) == o.method = Absent /\ o.code = 0

-----------------------------------------------------------------------------
(* Input lines.  A line is text that is not JSON ("malformed"), the JSON   *)
(* value null, another JSON value without properties of its own (a number, *)
(* a string, an array: "scalar"), or a JSON object.  `params` flattens     *)
(* request.params and request.params.parameters.                           *)

NoParams ==
  [present |-> FALSE, protocolVersion |-> Absent, name |-> Absent,
   region |-> Absent, bucket |-> Absent, namespace |-> Absent,
   metricName |-> Absent]

Params(pv, name, rg, bucket, ns, mn) ==
  [present |-> TRUE, protocolVersion |-> pv, name |-> name, region |-> rg,
   bucket |-> bucket, namespace |-> ns, metricName |-> mn]

Invoke(name) == Params(Absent, name, Absent, Absent, Absent, Absent)

Line(kind, jsonrpc, id, method, params) ==
  [kind |-> kind, jsonrpc |-> jsonrpc, id |-> id, method |-> method,
   params |-> params]

Request(jsonrpc, id, method, params) == Line("object", jsonrpc, id, method, params)

OtherRegion == "eu-west-1"

\* Request shapes tried with and without an id.
CoreShapes ==
  { <<"initialize", NoParams>>,
    <<"initialize", Params("2024-11-05", Absent, Absent, Absent, Absent, Absent)>>,
    <<"tools/list", NoParams>>,
    <<"notifications/initialized", NoParams>>,
    <<"resources/list", NoParams>>,
    <<Absent, NoParams>>,
    <<"tools/invoke", Invoke("ping")>>,
    <<"tools/invoke", Invoke("nope")>>,
    <<"tools/invoke",
      Params(Absent, "aws.s3.listObjects", OtherRegion, Absent, Absent, Absent)>>,
    <<"tools/invoke",
      Params(Absent, "aws.ec2.describeInstances", OtherRegion, Absent, Absent, Absent)>> }

\* The invocations tried with a second id, so that two requests with
\* different ids are in flight together.
SecondShapes ==
  { s \in CoreShapes :
      s[2].name \in {"ping", "aws.s3.listObjects", "aws.ec2.describeInstances"} }

\* The shapes tried with "id": null.
NullIdShapes == { s \in CoreShapes : s[1] \in {"tools/list", "resources/list"} }

\* Further tools/invoke shapes, tried with one id.
MoreInvokeParams ==
  { NoParams,
    Invoke(""),
    Invoke("constructor"), Invoke("toString"), Invoke("__proto__"),
    Invoke("__lookupGetter__"),
    Invoke("aws.ec2.describeVpcs"),
    Params(Absent, "ping", OtherRegion, Absent, Absent, Absent),
    Invoke("aws.ec2.describeInstances"), Invoke("aws.s3.listBuckets"),
    Params(Absent, "aws.s3.listObjects", Absent, "my-bucket", Absent, Absent),
    Invoke("aws.cloudwatch.getMetricStatistics"),
    Params(Absent, "aws.cloudwatch.getMetricStatistics", OtherRegion, Absent,
           "AWS/EC2", Absent),
    Params(Absent, "aws.cloudwatch.getMetricStatistics", Absent, Absent,
           "AWS/EC2", "CPUUtilization") }

\* A request whose jsonrpc is not "2.0" and which names a registered tool.
WrongVersionInvoke ==
  Params(Absent, "aws.s3.listBuckets", OtherRegion, Absent, Absent, Absent)

Lines ==
  { Line("malformed", Absent, Absent, Absent, NoParams),
    Line("null", Absent, Absent, Absent, NoParams),
    Line("scalar", Absent, Absent, Absent, NoParams) }
  \cup { Request("2.0", id, s[1], s[2]) : id \in {Absent, "1"}, s \in CoreShapes }
  \cup { Request("2.0", "2", s[1], s[2]) : s \in SecondShapes }
  \cup { Request("2.0", Null, s[1], s[2]) : s \in NullIdShapes }
  \cup { Request("2.0", "1", "tools/invoke", p) : p \in MoreInvokeParams }
  \cup { Request("1.0", id, "tools/invoke", WrongVersionInvoke) : id \in {Absent, "1"} }
  \cup { Request(Absent, "1", "initialize",
                 Params("2024-11-05", Absent, Absent, Absent, Absent, Absent)) }

-----------------------------------------------------------------------------
(* Tool handlers.                                                          *)

\* A handleRegion that does not update AWS.config.
handleRegionLocal(params, config) ==
  IF params.region # Absent
    THEN [ret |-> params.region, set |-> config]
    ELSE [ret |-> (IF config # Absent THEN config ELSE "us-west-2"), set |-> config]

\* handleRegion(params): `set` is AWS.config.region afterwards.
handleRegion(params, config) ==
  IF params.region # Absent
    THEN [ret |-> params.region, set |-> params.region]
    ELSE [ret |-> (IF config # Absent THEN config ELSE "us-west-2"), set |-> config]

\* The message of the Error a handler throws on its own check of the
\* parameters, before it calls the provider; Absent when it throws none.
ValidationError(toolName, params) ==
  CASE toolName = "aws.s3.listObjects" /\ params.bucket = Absent ->
         "Bucket name is required"
    [] toolName = "aws.cloudwatch.getMetricStatistics" /\ params.namespace = Absent ->
         "Namespace is required"
    [] toolName = "aws.cloudwatch.getMetricStatistics" /\ params.metricName = Absent ->
         "Metric name is required"
    [] OTHER -> Absent

\* The prefix a handler's catch puts before the provider's message.
ErrorPrefix(toolName) ==
  CASE toolName = "aws.ec2.describeInstances" -> "EC2 Error: "
    [] toolName \in {"aws.s3.listBuckets", "aws.s3.listObjects"} -> "S3 Error: "
    [] toolName = "aws.lambda.listFunctions" -> "Lambda Error: "
    [] toolName = "aws.dynamodb.listTables" -> "DynamoDB Error: "
    [] toolName = "aws.cloudwatch.getMetricStatistics" -> "CloudWatch Error: "
    [] OTHER -> ""

\* A message of a failed provider call.
ProviderMessage == "Access Denied"

\* One call toolHandlers[toolName](toolParams): `src` the line that made it,
\* `kind` where its outcome comes from ("sync": thrown by the call itself;
\* "micro": settled when the call returns, the awaiting listener resumes in a
\* microtask; "io": pending on the provider), `state` of the returned promise.
Call(src, tool, kind, state, rg, value, message) ==
  [src |-> src, tool |-> tool, kind |-> kind, state |-> state, region |-> rg,
   value |-> value, message |-> message, answered |-> FALSE]

\* A ping handler that processes the region parameter like the others.
CallsHandleRegionAlways(toolName) == toolName \in toolHandlers

\* The handlers whose first statement is handleRegion(params): all but ping.
CallsHandleRegion(toolName) == toolName \in toolHandlers \ {"ping"}

\* The synchronous part of toolHandlers[toolName](toolParams).
StartCall(src, toolName, toolParams, config) ==
  LET hr == IF CallsHandleRegion(toolName)
              THEN handleRegion(toolParams, config)
              ELSE [ret |-> Absent, set |-> config]
      invalid == ValidationError(toolName, toolParams)
      same(c) == [call |-> c, config |-> hr.set]
  IN CASE toolName = "__proto__" ->
            \* Object.prototype is no function: the call throws a TypeError
            same(Call(src, toolName, "sync", "rejected", Absent, NoResult,
                      "toolHandlers[toolName] is not a function"))
       [] toolName = "constructor" ->
            \* Object(toolParams) returns toolParams
            same(Call(src, toolName, "micro", "fulfilled", Absent,
                      Result("toolParams", toolParams.region, Absent, <<>>), Absent))
       [] toolName = "toString" ->
            same(Call(src, toolName, "micro", "fulfilled", Absent,
                      Result("[object Object]", Absent, Absent, <<>>), Absent))
       [] toolName = "__lookupGetter__" ->
            \* no getter of that name: returns undefined
            same(Call(src, toolName, "micro", "fulfilled", Absent, NoResult, Absent))
       [] toolName = "ping" ->
            same(Call(src, toolName, "micro", "fulfilled", Absent,
                      Result("pong", Absent, Absent, <<>>), Absent))
       [] OTHER ->
            IF invalid # Absent
              THEN [call |-> Call(src, toolName, "micro", "rejected", hr.ret,
                                  NoResult, invalid),
                    config |-> hr.set]
              ELSE [call |-> Call(src, toolName, "io", "pending", hr.ret,
                                  NoResult, Absent),
                    config |-> hr.set]

\* A handler that reads AWS.config.region when its provider call ends.
SettleReadsConfig(c, ok) ==
  IF ok
    THEN [c EXCEPT !.state = "fulfilled",
                   !.value = Result(c.tool,
                                    IF lines[c.src].params.region # Absent
                                      THEN lines[c.src].params.region
                                      ELSE region,
                                    Absent, <<>>)]
    ELSE [c EXCEPT !.state = "rejected",
                   !.message = ErrorPrefix(c.tool) \o ProviderMessage]

\* The provider call of a pending handler ends: the handler returns its
\* result, or throws the provider's error with its prefix.
Settle(c, ok) ==
  IF ok
    THEN [c EXCEPT !.state = "fulfilled",
                   !.value = Result(c.tool, c.region, Absent, <<>>)]
    ELSE [c EXCEPT !.state = "rejected",
                   !.message = ErrorPrefix(c.tool) \o ProviderMessage]

-----------------------------------------------------------------------------
(* The 'line' listener.  What processing one line does before it returns   *)
(* or first awaits: the lines it writes, the handler call it makes (at     *)
(* most one), AWS.config.region and whether the process goes on listening. *)

Effect(o, c, config) == [out |-> o, call |-> c, config |-> config, pc |-> "listening"]

\* A catch that ends the process after answering (process.exit in the catch).
CatchAllExits(src, config) ==
  [out |-> <<sendErrorResponse(src, Null, -32700, "Parse error")>>,
   call |-> <<>>, config |-> config, pc |-> "exited"]

\* The outer catch: whatever was thrown, a parse error with id null.
CatchAll(src, config) ==
  Effect(<<sendErrorResponse(src, Null, -32700, "Parse error")>>, <<>>, config)

\* No check of the version.
EnvelopeNeverInvalid(request) == FALSE

\* request.jsonrpc !== '2.0'
EnvelopeInvalid(request) == request.jsonrpc # "2.0"

InitializeBranch(request, src, config) ==
  IF ~request.params.present
    THEN \* request.params.protocolVersion of undefined: a TypeError
         CatchAll(src, config)
    ELSE Effect(<<sendResponse(src, request.id,
                               Result("handshake", Absent,
                                      request.params.protocolVersion, <<>>))>>,
                <<>>, config)

\* A listing that misses the first catalog entry.
ListToolsSkipsFirst ==
  [i \in 1..(Len(tools) - 1) |->
     [name |-> tools[i + 1].name,
      inputSchema |-> [type |-> "object", properties |-> tools[i + 1].properties,
                       required |-> tools[i + 1].required,
                       additionalProperties |-> FALSE]]]

\* tools.map(tool => ({name, description, inputSchema}))
ListTools ==
  [i \in 1..Len(tools) |->
     [name |-> tools[i].name,
      inputSchema |-> [type |-> "object", properties |-> tools[i].properties,
                       required |-> tools[i].required,
                       additionalProperties |-> FALSE]]]

ListBranch(request, src, config) ==
  Effect(<<sendResponse(src, request.id, Result("catalog", Absent, Absent, ListTools))>>,
         <<>>, config)

InvokeBranch(request, src, config) ==
  LET toolName == request.params.name
      toolParams == request.params
      started == StartCall(src, toolName, toolParams, config)
  IN IF ToolMissing(toolName)
       THEN Effect(<<sendErrorResponse(src, request.id, -32601,
                                       "Tool '" \o TemplateString(toolName)
                                         \o "' not found")>>,
                   <<>>, config)
       ELSE IF started.call.kind = "sync"
         THEN \* the call threw: the inner catch answers at once
              Effect(<<sendErrorResponse(src, request.id, -32000,
                                         "Tool execution error: "
                                           \o started.call.message)>>,
                     <<[started.call EXCEPT !.answered = TRUE]>>, started.config)
         ELSE Effect(<<>>, <<started.call>>, started.config)

\* No notifications branch: the request falls through to the last statement.
NotificationBranchAnswers(request, src, config) ==
  Effect(<<sendErrorResponse(src, request.id, -32601, "Method not found")>>,
         <<>>, config)

\* method === 'notifications/initialized': return without a response
NotificationBranch(request, src, config) == Effect(<<>>, <<>>, config)

\* An unknown method answered as an invalid request.
MethodNotFoundInvalidRequest(request, src, config) ==
  Effect(<<sendErrorResponse(src, request.id, -32600, "Invalid Request")>>,
         <<>>, config)

\* An unknown method dropped without an answer.
MethodNotFoundSilent(request, src, config) == Effect(<<>>, <<>>, config)

MethodNotFound(request, src, config) ==
  Effect(<<sendErrorResponse(src, request.id, -32601, "Method not found")>>,
         <<>>, config)

OnLine(line, src, config) ==
  CASE line.kind = "malformed" -> CatchAll(src, config)      \* JSON.parse throws
    [] line.kind = "null" -> CatchAll(src, config)   \* null.jsonrpc: a TypeError
    [] OTHER ->
       IF EnvelopeInvalid(line)
         THEN Effect(<<sendErrorResponse(src, line.id, -32600,
                                         "Invalid Request: Not JSON-RPC 2.0")>>,
                     <<>>, config)
       ELSE IF line.method = "initialize" THEN InitializeBranch(line, src, config)
       ELSE IF line.method = "tools/list" THEN ListBranch(line, src, config)
       ELSE IF line.method = "tools/invoke" THEN InvokeBranch(line, src, config)
       ELSE IF line.method = "notifications/initialized"
         THEN NotificationBranch(line, src, config)
       ELSE MethodNotFound(line, src, config)

\* The request kept in a variable all listeners share: the last line read.
RequestOfShared(c) == lines[Len(lines)]

\* The request a resumed listener answers: the `request` of its own closure.
RequestOf(c) == lines[c.src]

\* No inner try/catch: a handler's error reaches the outer catch.
RespondRethrow(c) ==
  IF c.state = "fulfilled"
    THEN sendResponse(c.src, lines[c.src].id, c.value)
    ELSE sendErrorResponse(c.src, Null, -32700, "Parse error")

\* After `await`: the try block sends the result, the inner catch the error.
Respond(c) ==
  IF c.state = "fulfilled"
    THEN sendResponse(c.src, RequestOf(c).id, c.value)
    ELSE sendErrorResponse(c.src, RequestOf(c).id, -32000,
                           "Tool execution error: " \o c.message)

-----------------------------------------------------------------------------
(* The minimal server, mcp-server-jsonrpc.js.  Its sendResponse and        *)
(* sendErrorResponse build the same objects as those of the full server.   *)

\* const tools of the minimal server.
minimalTools == << Tool("ping", {}, <<>>) >>

\* tools.map(tool => ({name, description, inputSchema})) of the minimal server.
minimalListTools ==
  [i \in 1..Len(minimalTools) |->
     [name |-> minimalTools[i].name,
      inputSchema |-> [type |-> "object", properties |-> minimalTools[i].properties,
                       required |-> minimalTools[i].required,
                       additionalProperties |-> FALSE]]]

\* The catch of the minimal listener: a parse error with id null.
minimalCatch(src) == <<sendErrorResponse(src, Null, -32700, "Parse error")>>

\* The 'line' listener of the minimal server: the lines it writes for one
\* input line.  It is not async and awaits nothing.
minimalOnLine(line, src) ==
  CASE line.kind = "malformed" -> minimalCatch(src)          \* JSON.parse throws
    [] line.kind = "null" -> minimalCatch(src)       \* null.jsonrpc: a TypeError
    [] OTHER ->
       IF line.jsonrpc # "2.0"
         THEN <<sendErrorResponse(src, line.id, -32600,
                                  "Invalid Request: Not JSON-RPC 2.0")>>
       ELSE IF line.method = "initialize"
         THEN IF ~line.params.present
                THEN \* request.params.protocolVersion of undefined: a TypeError
                     minimalCatch(src)
                ELSE <<sendResponse(src, line.id,
                                    Result("handshake", Absent,
                                           line.params.protocolVersion, <<>>))>>
       ELSE IF line.method = "tools/list"
         THEN <<sendResponse(src, line.id,
                             Result("catalog", Absent, Absent, minimalListTools))>>
       ELSE IF line.method = "tools/invoke" /\ line.params.name = "ping"
         THEN <<sendResponse(src, line.id, Result("pong", Absent, Absent, <<>>))>>
       ELSE <<sendErrorResponse(src, line.id, -32601, "Method not found")>>

-----------------------------------------------------------------------------
(* The state machine.                                                      *)

\* Lines handled while the startup script still runs.
LineEventsDeliveredEarly == pc \in {"start", "listening"}

\* Strictly sequential intake: no line is read while a request is unanswered.
LineEventsDeliveredSequential ==
  pc = "listening" /\ \A k \in DOMAIN calls : calls[k].answered

\* 'line' events are delivered once the startup script has run to its end.
LineEventsDelivered == pc = "listening"

Init ==
  /\ pc = "start"
  /\ lines = <<>>
  /\ out = <<>>
  /\ calls = <<>>
  /\ microtasks = <<>>
  /\ region = "us-west-2"
  /\ logWorks = TRUE
  /\ minimalOut = <<>>

\* What becomes of the process when the promise of the async listener is
\* rejected and nothing handles it: it goes on (a warning) or it ends,
\* according to the unhandled-rejections mode of the Node.js that runs it.
UnhandledRejection == {"listening", "crashed"}

\* The end of the startup script: the ready notification.  log() comes
\* first; when it throws, the script ends there.  The startup script of the
\* minimal server ends the same way.
Start ==
  /\ pc = "start"
  /\ IF logWorks
       THEN /\ out' = Append(out, ReadyNotification) /\ pc' = "listening"
            /\ minimalOut' = Append(minimalOut, ReadyNotification)
       ELSE /\ out' = out /\ pc' = "crashed"
            /\ minimalOut' = minimalOut
  /\ UNCHANGED <<lines, calls, microtasks, region, logWorks>>

\* One line arrives and the listener runs up to its return or its await.
\* When log() throws, it throws for the received request (or in the catch
\* of a JSON.parse error) and again in the outer catch: the listener ends
\* with a rejection, having dispatched and written nothing.  The minimal
\* server gets the same line; with a log that throws, its listener throws
\* out of its catch and writes nothing either.
ReadLine(line) ==
  /\ LineEventsDelivered
  /\ Len(lines) < MaxLines
  /\ lines' = Append(lines, line)
  /\ IF logWorks
       THEN LET e == OnLine(line, Len(lines) + 1, region)
            IN /\ out' = out \o e.out
               /\ calls' = calls \o e.call
               /\ microtasks' = IF e.call # <<>> /\ e.call[1].kind = "micro"
                                  THEN Append(microtasks, Len(calls) + 1)
                                  ELSE microtasks
               /\ region' = e.config
               /\ pc' = e.pc
               /\ minimalOut' = minimalOut \o minimalOnLine(line, Len(lines) + 1)
       ELSE /\ pc' \in UnhandledRejection
            /\ UNCHANGED <<out, calls, microtasks, region, minimalOut>>
  /\ UNCHANGED logWorks

\* The oldest listener whose handler call has settled resumes and answers.
\* When log() throws, it throws in sendResponse or in the inner catch before
\* anything is written, and again in the outer catch.
Microtask ==
  /\ pc = "listening"
  /\ microtasks # <<>>
  /\ LET i == Head(microtasks)
     IN IF logWorks
          THEN /\ out' = Append(out, Respond(calls[i]))
               /\ calls' = [calls EXCEPT ![i].answered = TRUE]
               /\ pc' = pc
          ELSE /\ pc' \in UnhandledRejection
               /\ UNCHANGED <<out, calls>>
  /\ microtasks' = Tail(microtasks)
  /\ UNCHANGED <<lines, region, logWorks, minimalOut>>

\* The provider call of a pending handler ends (in any order, or never), and
\* the listener awaiting it resumes and answers.
IOComplete(i, ok) ==
  /\ pc = "listening"
  /\ i \in DOMAIN calls
  /\ calls[i].state = "pending"
  /\ microtasks = <<>>
  /\ LET c == Settle(calls[i], ok)
     IN IF logWorks
          THEN /\ out' = Append(out, Respond(c))
               /\ calls' = [calls EXCEPT ![i] = [c EXCEPT !.answered = TRUE]]
               /\ pc' = pc
          ELSE /\ out' = out
               /\ calls' = [calls EXCEPT ![i] = c]
               /\ pc' \in UnhandledRejection
  /\ UNCHANGED <<lines, microtasks, region, logWorks, minimalOut>>

\* The log file stops being writable (a full disk, a removed directory).
LogBreaks ==
  /\ pc \in {"start", "listening"}
  /\ logWorks
  /\ logWorks' = FALSE
  /\ UNCHANGED <<pc, lines, out, calls, microtasks, region, minimalOut>>

Next ==
  \/ Start
  \/ \E line \in Lines : ReadLine(line)
  \/ Microtask
  \/ \E i \in DOMAIN calls, ok \in BOOLEAN : IOComplete(i, ok)

Spec == Init /\ [][Next]_vars

NextLog == Next \/ LogBreaks

SpecLog == Init /\ [][NextLog]_vars

TypeOK ==
  /\ pc \in {"start", "listening", "crashed"}
  /\ logWorks \in BOOLEAN
  /\ Len(lines) <= MaxLines
  /\ \A i \in DOMAIN lines : lines[i] \in Lines
  /\ Len(calls) <= Len(lines)
  /\ region \in {"us-west-2", OtherRegion}
  /\ Len(minimalOut) <= Len(lines) + 1

-----------------------------------------------------------------------------
(* Vocabulary of the properties.                                           *)

\* The output lines that processing input line i has written.
Written(i) == { j \in DOMAIN out : out[j].src = i }

\* Input line i made a handler call whose listener has not answered yet.
InFlight(i) == \E k \in DOMAIN calls : calls[k].src = i /\ ~calls[k].answered

\* Input line i parsed to a request object with jsonrpc "2.0".
IsRequest(i) == lines[i].kind = "object" /\ lines[i].jsonrpc = "2.0"

IsInvoke(i) == IsRequest(i) /\ lines[i].method = "tools/invoke"

HasId(i) == lines[i].kind = "object" /\ lines[i].id \notin {Absent, Null}

\* C1 as stated: every parsed request with a non-null id whose handler (if
\* any) has completed has exactly one response line, whatever the method.
C1_OneResponsePerId ==
  \A i \in DOMAIN lines :
    (HasId(i) /\ ~InFlight(i)) => Cardinality(Written(i)) = 1

\* C1 amended: a parsed request with a non-null id has no response line while
\* its handler is pending and exactly one once it completed or when there is
\* none, unless it is a jsonrpc "2.0" request with method
\* notifications/initialized, for which no line is ever written.
C1_OneResponseUnlessInitialized ==
  \A i \in DOMAIN lines :
    HasId(i) =>
      IF IsRequest(i) /\ lines[i].method = "notifications/initialized"
        THEN Written(i) = {}
        ELSE IF InFlight(i) THEN Written(i) = {}
                            ELSE Cardinality(Written(i)) = 1

C1_Witness ==
  \E i, j \in DOMAIN lines :
    /\ i < j
    /\ HasId(i) /\ IsInvoke(i) /\ InFlight(i)
    /\ HasId(j) /\ lines[j].method = "resources/list" /\ Written(j) # {}

\* C2: a parsed request without an id never causes an output line.
C2_NoOutputWithoutId ==
  \A i \in DOMAIN lines :
    (lines[i].kind = "object" /\ lines[i].id = Absent) => Written(i) = {}

\* C3: every well-formed JSON line whose jsonrpc is not "2.0" is answered
\* with the error -32600 carrying the request's id.
C3_InvalidRequest ==
  \A i \in DOMAIN lines :
    (lines[i].kind # "malformed" /\ lines[i].jsonrpc # "2.0") =>
      /\ Written(i) # {}
      /\ \A j \in Written(i) : out[j].code = -32600 /\ out[j].id = lines[i].id

\* C4: a tools/invoke whose name is missing or names no registered tool is
\* answered with -32601 "Tool '<name>' not found" and runs no handler code.
C4_ToolNotFound ==
  \A i \in DOMAIN lines :
    (IsInvoke(i) /\ lines[i].params.name \notin toolHandlers) =>
      /\ \A k \in DOMAIN calls : calls[k].src # i
      /\ Cardinality(Written(i)) = 1
      /\ \A j \in Written(i) :
           /\ out[j].code = -32601
           /\ out[j].message =
                "Tool '" \o TemplateString(lines[i].params.name) \o "' not found"

\* C5: a tools/invoke of a name of the tools/list catalog is delegated to a
\* handler and never answered with "Tool '<name>' not found".
C5_CatalogInvokable ==
  \A i \in DOMAIN lines :
    (IsInvoke(i) /\ \E t \in DOMAIN ListTools : ListTools[t].name = lines[i].params.name) =>
      /\ \E k \in DOMAIN calls : calls[k].src = i
      /\ \A j \in Written(i) : out[j].code # -32601

\* C6: a line that is not well-formed JSON gets exactly one response, the
\* error -32700 "Parse error" with id null, and the server goes on listening,
\* so that the lines after it are read and answered.
C6_ParseError ==
  \A i \in DOMAIN lines :
    lines[i].kind = "malformed" =>
      /\ Cardinality(Written(i)) = 1
      /\ \A j \in Written(i) :
           /\ out[j].id = Null /\ out[j].code = -32700
           /\ out[j].message = "Parse error" /\ out[j].result = NoResult
           /\ out[j].method = Absent
      /\ pc = "listening"
      /\ \A n \in DOMAIN lines :
           (n > i /\ lines[n].method = "tools/list" /\ lines[n].jsonrpc = "2.0")
             => Cardinality(Written(n)) = 1

C6_Witness ==
  \E i, n \in DOMAIN lines :
    /\ lines[i].kind = "malformed" /\ n > i
    /\ lines[n].method = "tools/list" /\ lines[n].jsonrpc = "2.0"
    /\ \E j \in Written(n) : out[j].result.tag = "catalog"

\* C7: a -32700 response is written only for a line that is not well-formed
\* JSON.
C7_ParseErrorOnlyForMalformed ==
  \A j \in DOMAIN out :
    out[j].code = -32700 => lines[out[j].src].kind = "malformed"

\* C8: when the handler of a registered tool throws or rejects, the request
\* is answered with exactly one error, -32000 "Tool execution error:
\* <handler message>" with the request's id, and never with -32700; a
\* handler that rejects its input (aws.s3.listObjects without bucket) is
\* such a failure.
C8_HandlerFailure ==
  /\ \A k \in DOMAIN calls :
       (calls[k].tool \in toolHandlers /\ calls[k].state = "rejected"
          /\ calls[k].answered) =>
         /\ Cardinality(Written(calls[k].src)) = 1
         /\ \A j \in Written(calls[k].src) :
              /\ out[j].code = -32000
              /\ out[j].message = "Tool execution error: " \o calls[k].message
              /\ out[j].id = lines[calls[k].src].id
              /\ out[j].result = NoResult
  /\ \A i \in DOMAIN lines :
       (IsInvoke(i) /\ lines[i].params.name = "aws.s3.listObjects"
          /\ lines[i].params.bucket = Absent /\ ~InFlight(i)) =>
         \E j \in Written(i) :
           out[j].message = "Tool execution error: Bucket name is required"

C8_Witness ==
  \E k, m \in DOMAIN calls :
    /\ calls[k].tool = "aws.s3.listObjects" /\ calls[k].kind = "micro"
    /\ calls[k].state = "rejected" /\ calls[k].answered
    /\ calls[m].kind = "io" /\ calls[m].state = "rejected" /\ calls[m].answered

\* C9: the ready notification is the first output line, is written before
\* any input line is processed, and is the only notification of the run.
C9_ReadyOnceFirst ==
  /\ pc = "start" => (out = <<>> /\ lines = <<>>)
  /\ pc # "start" =>
       /\ Len(out) >= 1 /\ out[1] = ReadyNotification
       /\ \A j \in 2..Len(out) : ~IsNotification(out[j]) /\ out[j].src >= 1

C9_Witness ==
  /\ Len(lines) = MaxLines
  /\ Len(out) > MaxLines
  /\ out[1] = ReadyNotification

\* C10: of the tool invocations in flight together, whose handlers complete
\* in any order, none is dropped or answered twice: an invocation has no
\* response before its handler completed and exactly one after, that
\* response carries the id of its own request, and its result or error is
\* the outcome of its own handler call.
C10_NoDropNoDup ==
  /\ \A k, m \in DOMAIN calls : calls[k].src = calls[m].src => k = m
  /\ \A k \in DOMAIN calls :
       LET c == calls[k]
       IN /\ c.src \in DOMAIN lines /\ IsInvoke(c.src)
          /\ c.tool = lines[c.src].params.name
          /\ ~c.answered => Written(c.src) = {}
          /\ c.answered =>
               /\ c.state # "pending"
               /\ Cardinality(Written(c.src)) = 1
               /\ \A j \in Written(c.src) :
                    /\ out[j].id = lines[c.src].id
                    /\ c.state = "fulfilled" =>
                         (IsSuccess(out[j]) /\ out[j].result = c.value)
                    /\ c.state = "rejected" =>
                         (out[j].code = -32000 /\ out[j].message =
                            "Tool execution error: " \o c.message)

\* Two invocations with different ids were in flight together and the later
\* one was answered first.
C10_Witness ==
  /\ Len(calls) >= 2
  /\ calls[1].kind = "io" /\ calls[2].kind = "io"
  /\ calls[1].answered /\ calls[2].answered
  /\ lines[calls[1].src].id = "1" /\ lines[calls[2].src].id = "2"
  /\ \E j1 \in Written(calls[1].src), j2 \in Written(calls[2].src) : j2 < j1

-----------------------------------------------------------------------------
(* Vocabulary of the properties about the region.                          *)

\* The region parameter that input line i hands to handleRegion: that of a
\* jsonrpc "2.0" tools/invoke of an AWS handler; Absent for any other line.
RegionParam(i) ==
  IF IsInvoke(i) /\ lines[i].params.name \in toolHandlers
       /\ lines[i].params.name # "ping"
    THEN lines[i].params.region
    ELSE Absent

\* AWS.config.region once the first n input lines have been dispatched.
RECURSIVE ActiveRegionAfter(_)
ActiveRegionAfter(n) ==
  IF n = 0 THEN "us-west-2"
  ELSE IF RegionParam(n) # Absent THEN RegionParam(n)
  ELSE ActiveRegionAfter(n - 1)

\* C11: every initialize request with jsonrpc "2.0" is answered with a
\* success result that echoes the requested protocol version and the id.
C11_Handshake ==
  \A i \in DOMAIN lines :
    (IsRequest(i) /\ lines[i].method = "initialize") =>
      /\ Cardinality(Written(i)) = 1
      /\ \A j \in Written(i) :
           /\ IsSuccess(out[j])
           /\ out[j].result.tag = "handshake"
           /\ out[j].result.protocolVersion = lines[i].params.protocolVersion
           /\ out[j].id = lines[i].id

\* C12: a log that cannot be written fails no request: a line that needs no
\* handler gets the response lines it gets with a working log.
C12_LogFailureHarmless ==
  \A i \in DOMAIN lines :
    LET e == OnLine(lines[i], i, "us-west-2")
    IN e.call = <<>> =>
         /\ Cardinality(Written(i)) = Len(e.out)
         /\ \A n \in DOMAIN e.out : \E j \in Written(i) : out[j] = e.out[n]

C14_PingIdempotent ==
  /\ \A k \in DOMAIN calls :
       calls[k].tool = "ping" =>
         /\ calls[k].state = "fulfilled"
         /\ calls[k].answered =>
              /\ Cardinality(Written(calls[k].src)) = 1
              /\ \A j \in Written(calls[k].src) :
                   /\ IsSuccess(out[j])
                   /\ out[j].result = Result("pong", Absent, Absent, <<>>)
                   /\ out[j].id = lines[calls[k].src].id
  /\ region = ActiveRegionAfter(Len(lines))
  /\ \A k \in DOMAIN calls :
       (calls[k].kind = "io" /\ calls[k].state = "fulfilled" /\ calls[k].answered) =>
         \A j \in Written(calls[k].src) :
           out[j].result.region =
             IF lines[calls[k].src].params.region # Absent
               THEN lines[calls[k].src].params.region
               ELSE ActiveRegionAfter(calls[k].src - 1)

\* A ping with a region parameter, then an invocation without one that
\* reports the default region.
C14_Witness ==
  /\ Len(lines) = 2 /\ Len(calls) = 2
  /\ lines[1].params.name = "ping" /\ lines[1].params.region = OtherRegion
  /\ lines[2].params.name = "aws.ec2.describeInstances"
  /\ lines[2].params.region = Absent
  /\ calls[1].answered /\ calls[2].answered /\ calls[2].state = "fulfilled"
  /\ \E j \in Written(2) : out[j].result.region = "us-west-2"

\* C15: a jsonrpc "2.0" request with method notifications/initialized gets
\* no response line and runs no handler, with or without an id.
C15_InitializedUnanswered ==
  \A i \in DOMAIN lines :
    (IsRequest(i) /\ lines[i].method = "notifications/initialized") =>
      /\ Written(i) = {}
      /\ \A k \in DOMAIN calls : calls[k].src # i

C15_Witness ==
  /\ Len(lines) = 2
  /\ IsRequest(1) /\ lines[1].method = "notifications/initialized"
  /\ lines[1].id = "1"
  /\ IsRequest(2) /\ lines[2].method = "notifications/initialized"
  /\ lines[2].id = Absent
  /\ Len(out) = 1

\* C16: every response line has exactly one of result and error, and every
\* error code is one of -32700, -32600, -32601, -32000.
C16_OneVariant ==
  \A j \in DOMAIN out :
    ~IsNotification(out[j]) =>
      /\ (out[j].result.tag # Absent) # (out[j].code # 0)
      /\ out[j].code \in {0, -32700, -32600, -32601, -32000}

\* C17: a jsonrpc "2.0" request with an id whose method is none of
\* initialize, tools/list, tools/invoke and notifications/initialized (a
\* missing method too) gets the one response -32601 "Method not found" with
\* its id, and runs no handler.
C17_MethodNotFound ==
  \A i \in DOMAIN lines :
    (IsRequest(i) /\ lines[i].id # Absent
       /\ lines[i].method \notin {"initialize", "tools/list", "tools/invoke",
                                  "notifications/initialized"}) =>
      /\ Cardinality(Written(i)) = 1
      /\ \A j \in Written(i) :
           /\ out[j].code = -32601 /\ out[j].message = "Method not found"
           /\ out[j].id = lines[i].id /\ out[j].result = NoResult
      /\ \A k \in DOMAIN calls : calls[k].src # i

C17_Witness ==
  /\ Len(lines) = 2
  /\ IsRequest(1) /\ lines[1].method = Absent /\ lines[1].id = "1"
  /\ IsRequest(2) /\ lines[2].method = "resources/list" /\ lines[2].id = Null
  /\ Written(1) # {} /\ Written(2) # {}

\* C18: a request object whose jsonrpc is not "2.0" gets the one response
\* -32600 with its id, runs no handler and leaves the active region as it
\* was, also when it is a tools/invoke of a registered tool with a region.
C18_EnvelopeFirst ==
  /\ \A i \in DOMAIN lines :
       (lines[i].kind = "object" /\ lines[i].jsonrpc # "2.0") =>
         /\ \A k \in DOMAIN calls : calls[k].src # i
         /\ Cardinality(Written(i)) = 1
         /\ \A j \in Written(i) :
              out[j].code = -32600 /\ out[j].id = lines[i].id
  /\ (\A i \in DOMAIN lines : lines[i].jsonrpc # "2.0") => region = "us-west-2"
  /\ \A k \in DOMAIN calls :
       (calls[k].src > 1 /\ calls[k].tool \in toolHandlers \ {"ping"}
          /\ lines[calls[k].src].params.region = Absent
          /\ lines[calls[k].src - 1].jsonrpc # "2.0") =>
         calls[k].region = ActiveRegionAfter(calls[k].src - 1)

\* A wrong-version tools/invoke of a registered tool with a region, then an
\* invocation without a region that reports the default region.
C18_Witness ==
  /\ Len(lines) = 2
  /\ lines[1].jsonrpc = "1.0" /\ lines[1].method = "tools/invoke"
  /\ lines[1].params.name \in toolHandlers /\ lines[1].params.region = OtherRegion
  /\ Written(1) # {}
  /\ IsInvoke(2) /\ lines[2].params.region = Absent
  /\ \E j \in Written(2) : out[j].result.region = "us-west-2"

\* C19: a handler that has not completed withholds the response of its own
\* request and nothing else: while it is pending the next line can be read,
\* and the lines read after it are dispatched and answered.
C19_PendingBlocksNothing ==
  /\ \A i \in DOMAIN lines : InFlight(i) => Written(i) = {}
  /\ (pc = "listening" /\ Len(lines) < MaxLines
        /\ \E i \in DOMAIN lines : InFlight(i)) =>
       ENABLED (\E line \in Lines : ReadLine(line))
  /\ \A i, n \in DOMAIN lines :
       (i < n /\ InFlight(i)) =>
         /\ (lines[n].method \in {"initialize", "tools/list", "resources/list"}
               \/ lines[n].kind # "object")
              => Cardinality(Written(n)) = 1
         /\ (IsInvoke(n) /\ lines[n].params.name \in toolHandlers)
              => \E k \in DOMAIN calls : calls[k].src = n

\* The response of a later request is written while an earlier handler is
\* still pending.
C19_Witness ==
  \E k, m \in DOMAIN calls :
    /\ calls[k].src < calls[m].src
    /\ calls[k].state = "pending"
    /\ calls[m].kind = "io" /\ calls[m].answered
    /\ Written(calls[m].src) # {}

\* C20: a jsonrpc "2.0" tools/invoke of a registered tool without an id
\* runs the handler, and a region parameter it carries is the region of the
\* next invocation that gives none.
C20_NoIdInvokeRuns ==
  /\ \A i \in DOMAIN lines :
       (IsInvoke(i) /\ lines[i].id = Absent /\ lines[i].params.name \in toolHandlers) =>
         \E k \in DOMAIN calls :
           calls[k].src = i /\ calls[k].tool = lines[i].params.name
  /\ \A k \in DOMAIN calls :
       LET n == calls[k].src
       IN (n > 1 /\ calls[k].tool \in toolHandlers \ {"ping"}
             /\ lines[n].params.region = Absent
             /\ IsInvoke(n - 1) /\ lines[n - 1].id = Absent
             /\ lines[n - 1].params.name \in toolHandlers \ {"ping"}
             /\ lines[n - 1].params.region # Absent) =>
            /\ calls[k].region = lines[n - 1].params.region
            /\ (calls[k].state = "fulfilled" /\ calls[k].answered) =>
                 \A j \in Written(n) :
                   out[j].result.region = lines[n - 1].params.region

C20_Witness ==
  /\ Len(lines) = 2 /\ Len(calls) = 2
  /\ IsInvoke(1) /\ lines[1].id = Absent
  /\ lines[1].params.name = "aws.ec2.describeInstances"
  /\ lines[1].params.region = OtherRegion
  /\ IsInvoke(2) /\ lines[2].params.name = "aws.s3.listBuckets"
  /\ calls[2].state = "fulfilled" /\ calls[2].answered
  /\ \E j \in Written(2) : out[j].result.region = OtherRegion

\* C21: the region an AWS tool invocation uses and reports is fixed when
\* its line is dispatched: its own region parameter when given, otherwise
\* the region parameter of the latest earlier line's AWS invocation that
\* gave one, otherwise us-west-2, in whatever order the handlers complete.
C21_RegionByArrival ==
  \A k \in DOMAIN calls :
    calls[k].tool \in toolHandlers \ {"ping"} =>
      LET n == calls[k].src
          expected == IF lines[n].params.region # Absent
                        THEN lines[n].params.region
                        ELSE ActiveRegionAfter(n - 1)
      IN /\ calls[k].region = expected
         /\ \A j \in Written(n) :
              IsSuccess(out[j]) => out[j].result.region = expected

\* Two invocations complete in the reverse of their arrival order; the
\* first, without a region, reports the default although the second has
\* set another region before the first completed.
C21_Witness ==
  /\ Len(lines) = 2 /\ Len(calls) = 2 /\ Len(out) = 3
  /\ lines[1].params.region = Absent /\ lines[2].params.region = OtherRegion
  /\ calls[1].kind = "io" /\ calls[2].kind = "io"
  /\ out[2].src = 2 /\ out[2].result.region = OtherRegion
  /\ out[3].src = 1 /\ out[3].result.region = "us-west-2"
  /\ region = OtherRegion

\* C22: an invocation whose handler rejects its input (a missing bucket,
\* namespace or metric name) leaves the active region as it was before the
\* request, also when the request carries a region parameter: the region is
\* that of the lines before it, and so is the region of the next invocation
\* that gives none.
C22_RejectedInputKeepsRegion ==
  \A k \in DOMAIN calls :
    (calls[k].kind = "micro" /\ calls[k].state = "rejected" /\ calls[k].answered
       /\ calls[k].tool \in {"aws.s3.listObjects",
                             "aws.cloudwatch.getMetricStatistics"}) =>
      LET n == calls[k].src
      IN /\ n = Len(lines) => region = ActiveRegionAfter(n - 1)
         /\ \A m \in DOMAIN calls :
              (calls[m].src = n + 1 /\ calls[m].tool \in toolHandlers \ {"ping"}
                 /\ lines[n + 1].params.region = Absent) =>
                calls[m].region = ActiveRegionAfter(n - 1)

-----------------------------------------------------------------------------
(* Vocabulary of the comparison of the two servers.                        *)

\* The output lines a server has written for input line i, in order, o being
\* its output.
WrittenFor(o, i) == SelectSeq(o, LAMBDA l : l.src = i)

\* The names of the full server's catalog.
CatalogNames == { tools[t].name : t \in DOMAIN tools }

\* Input line i is of one of the kinds on which the two servers are
\* compared: a malformed line, a wrong jsonrpc version, initialize, an
\* invocation of ping or of a tool that is not in the catalog,
\* notifications/initialized, a method that is none of the four.
ComparedKind(i) ==
  \/ lines[i].kind = "malformed"
  \/ lines[i].kind = "object" /\ lines[i].jsonrpc # "2.0"
  \/ IsRequest(i) /\ lines[i].method = "initialize"
  \/ IsInvoke(i) /\ lines[i].params.name = "ping"
  \/ IsInvoke(i) /\ lines[i].params.name \notin CatalogNames \cup {Absent}
  \/ IsRequest(i) /\ lines[i].method = "notifications/initialized"
  \/ IsRequest(i) /\ lines[i].method \notin {"initialize", "tools/list", "tools/invoke",
                                            "notifications/initialized"}

\* C23: for every request of the compared kinds, once the full server has
\* answered it, the full server and the minimal server have written the
\* same response lines for it, or both none.
C23_SameResponses ==
  \A i \in DOMAIN lines :
    (ComparedKind(i) /\ ~InFlight(i)) =>
      WrittenFor(out, i) = WrittenFor(minimalOut, i)

====
